---------------------------- MODULE Spec2Model ----------------------------
(***************************************************************************)
(* The job lifecycle of the transcriber backend (src/app.py): the global   *)
(* job map active_jobs, the POST /transcribe handler, the worker thread    *)
(* process_transcription with download_audio, its progress_hook and        *)
(* transcribe_audio, the format renderer generate_formats, and the         *)
(* read-only handlers GET /progress and GET /download-all.                 *)
(*                                                                         *)
(* Threads interleave between any two statements that touch active_jobs or *)
(* the transcripts folder: every store to active_jobs[job_id][key] is one  *)
(* step of its own.  A statement that touches only locals is taken         *)
(* together with the shared statement that follows it.                     *)
(*                                                                         *)
(* Text is a string; a text whose characters the code inspects (the title, *)
(* a segment's text) is a sequence of one-character strings, turned into a *)
(* string by Str.  Times are whole milliseconds.  progress is a whole      *)
(* number: the percents and segment counts used make every product exact.  *)
(***************************************************************************)
EXTENDS Integers, Sequences, FiniteSets, TLC

(***************************************************************************)
(* Bounds of the model.                                                    *)
(***************************************************************************)
\* the clock (int(time.time() * 1000)) reads 0..MaxClock
MaxClock == 1
\* progress_hook callbacks the media fetcher delivers during one download
MaxHooks == 2
\* segments the transcriber returns
MaxSegments == 1
\* format_srt_time is called on its own with every time of 0..MaxMillis (ms)
MaxMillis == 1200
\* the csv branch is called on its own with up to MaxRows segments whose
\* texts have up to MaxTextLen characters
MaxRows == 2
MaxTextLen == 2

\* the POST /transcribe requests, each with the worker it starts; they are
\* numbered in the order in which their handlers read the clock
Requests == {1, 2}
\* the percents a 'downloading' callback carries (d['_percent_str'])
Percents == {0, 50, 100}

(***************************************************************************)
(* Dictionaries: a dict is a function, its keys are the domain.            *)
(***************************************************************************)
EmptyDict == [k \in {} |-> 0]

\* d[k] = v on a dict d (adds the key when it is absent)
SetItem(d, k, v) == [j \in DOMAIN d \cup {k} |-> IF j = k THEN v ELSE d[j]]

\* active_jobs[job_id][key] = v; the record of job_id exists whenever a
\* worker runs: transcribe stores it before it starts the thread
SetField(jobs, job_id, key, v) ==
    [jobs EXCEPT ![job_id] = SetItem(@, key, v)]

RECURSIVE Str(_)
\* ''.join(cs): the string of a sequence of one-character strings
Str(cs) == IF cs = <<>> THEN "" ELSE Head(cs) \o Str(Tail(cs))

RECURSIVE SelectChars(_, _)
\* [c for c in cs if c in keep]
SelectChars(cs, keep) ==
    IF cs = <<>> THEN <<>>
    ELSE (IF Head(cs) \in keep THEN <<Head(cs)>> ELSE <<>>) \o SelectChars(Tail(cs), keep)


RECURSIVE RStrip(_)
\* cs.rstrip(): trailing white space removed
RStrip(cs) ==
    IF cs # <<>> /\ cs[Len(cs)] \in {" ", "\t", "\n", "\r"}
    THEN RStrip(SubSeq(cs, 1, Len(cs) - 1))
    ELSE cs

\* cs[:n]
Take(cs, n) == SubSeq(cs, 1, IF Len(cs) < n THEN Len(cs) ELSE n)

\* the characters c with c.isalnum() (ASCII)
AlnumChars ==
    {"a","b","c","d","e","f","g","h","i","j","k","l","m","n","o","p","q","r",
     "s","t","u","v","w","x","y","z","A","B","C","D","E","F","G","H","I","J",
     "K","L","M","N","O","P","Q","R","S","T","U","V","W","X","Y","Z",
     "0","1","2","3","4","5","6","7","8","9"}

\* the length safe_title is cut to
SafeTitleLen == 30

\* "".join(c for c in title if c.isalnum() or c in (' ','-','_')).rstrip()[:30]
SafeTitle(title) ==
    Str(Take(RStrip(SelectChars(title, AlnumChars \cup {" ", "-", "_"})), SafeTitleLen))

\* f"{safe_title}_{lang_code}.{format_type}"
FileName(title, lang_code, format_type) ==
    SafeTitle(title) \o "_" \o lang_code \o "." \o format_type

(***************************************************************************)
(* Format renderer.                                                        *)
(***************************************************************************)
\* f"{n:02d}" and f"{n:03d}" for n >= 0
Pad2(n) == IF n < 10 THEN "0" \o ToString(n) ELSE ToString(n)
Pad3(n) == IF n < 10 THEN "00" \o ToString(n)
           ELSE IF n < 100 THEN "0" \o ToString(n) ELSE ToString(n)

\* the times (ms) past MaxMillis that the model formats: around the turn of
\* a minute and of an hour
LongTimes == {59999, 60000, 61001, 3599999, 3600000, 3661001}

\* The times t (ms), among 0..1300, LongTimes and the times of the model's
\* segments, at which IEEE double arithmetic makes int((t/1000 % 1) * 1000)
\* one less than t % 1000 (4.1 % 1 is 0.0999999999999996 in CPython); at
\* every other one of these times it is t % 1000.
TruncatedTimes ==
    {1001, 1003, 1005, 1007, 1009, 1011, 1013, 1015, 1017, 1019, 1021, 1023, 1025, 1027,
     1029, 1031, 1033, 1035, 1037, 1039, 1041, 1043, 1045, 1047, 1049, 1051, 1053, 1055,
     1057, 1059, 1061, 1063, 1065, 1067, 1069, 1071, 1073, 1075, 1077, 1079, 1081, 1083,
     1085, 1087, 1089, 1091, 1093, 1095, 1097, 1099, 1101, 1103, 1105, 1107, 1109, 1111,
     1113, 1115, 1126, 1128, 1130, 1132, 1134, 1136, 1138, 1140, 1142, 1144, 1146, 1148,
     1150, 1152, 1154, 1156, 1158, 1160, 1162, 1164, 1166, 1168, 1170, 1172, 1174, 1176,
     1178, 1180, 1182, 1184, 1186, 1188, 1190, 1192, 1194, 1196, 1198, 1200, 1202, 1204,
     1206, 1208, 1210, 1212, 1214, 1216, 1218, 1220, 1222, 1224, 1226, 1228, 1230, 1232,
     1251, 1253, 1255, 1257, 1259, 1261, 1263, 1265, 1267, 1269, 1271, 1273, 1275, 1277,
     1279, 1281, 1283, 1285, 1287, 1289, 1291, 1293, 1295, 1297, 1299, 4100, 61001, 3599999}

\* int(seconds * 1000): the whole seconds are left in
WholeMillis(ms) == ms

\* int((seconds % 1) * 1000)
FracMillis(ms) == IF ms \in TruncatedTimes THEN (ms % 1000) - 1 ELSE ms % 1000

\* the decimal digits, as characters
DigitChars == <<"0", "1", "2", "3", "4", "5", "6", "7", "8", "9">>

RECURSIVE Digits(_)
\* the characters of str(n), n >= 0
Digits(n) ==
    IF n < 10 THEN <<DigitChars[n + 1]>>
    ELSE Digits(n \div 10) \o <<DigitChars[(n % 10) + 1]>>

RECURSIVE ZeroPad(_, _)
\* the characters of f"{n:0<width>d}" from those of str(n): zeros are put in
\* front up to the width, and a longer number is not cut
ZeroPad(cs, width) == IF Len(cs) >= width THEN cs ELSE ZeroPad(<<"0">> \o cs, width)

\* the characters of the string format_srt_time(seconds) returns,
\* seconds = ms / 1000
format_srt_time_chars(ms) ==
    LET hours   == ms \div 3600000
        minutes == (ms % 3600000) \div 60000
        secs    == (ms % 60000) \div 1000
        millis  == FracMillis(ms)
    IN  ZeroPad(Digits(hours), 2) \o <<":">> \o ZeroPad(Digits(minutes), 2) \o <<":">>
        \o ZeroPad(Digits(secs), 2) \o <<",">> \o ZeroPad(Digits(millis), 3)

\* format_srt_time(seconds), seconds = ms / 1000
format_srt_time(ms) == Str(format_srt_time_chars(ms))

\* format_vtt_time(seconds): secs = seconds % 60 printed as 06.3f, which
\* rounds to the nearest millisecond
format_vtt_time(ms) ==
    LET hours   == ms \div 3600000
        minutes == (ms % 3600000) \div 60000
        secs    == ms % 60000
    IN  Pad2(hours) \o ":" \o Pad2(minutes) \o ":"
        \o Pad2(secs \div 1000) \o "." \o Pad3(secs % 1000)

\* format_time(seconds)
format_time(ms) == Pad2(ms \div 60000) \o ":" \o Pad2((ms % 60000) \div 1000)

\* f"{seconds:.2f}": two decimals, rounded to nearest (the model's times are
\* no ties, which binary representation decides)
Fixed2(ms) ==
    LET cs == (ms + 5) \div 10
    IN  ToString(cs \div 100) \o "." \o Pad2(cs % 100)

\* repr(seconds) as json.dumps prints it: the shortest decimal
FloatRepr(ms) ==
    LET f == ms % 1000
    IN  ToString(ms \div 1000) \o "." \o
        (IF f % 100 = 0 THEN ToString(f \div 100)
         ELSE IF f % 10 = 0 THEN Pad2(f \div 10) ELSE Pad3(f))

\* a language code that is no string (json: "languages": [7])
NonStringCode == "<int 7>"

\* the codes of language_map that the model uses
language_map ==
    [en |-> "English", es |-> "Spanish", fr |-> "French", de |-> "German"]

\* lang_code.upper() for the codes outside language_map that the model uses
Upper(lang_code) ==
    CASE lang_code = "xx" -> "XX"
      [] lang_code = "tlh" -> "TLH"
      [] OTHER -> lang_code

\* language_map.get(lang_code, lang_code.upper()): the default is evaluated
\* first, and raises AttributeError when lang_code is no string
get_language_name_raises(lang_code) == lang_code = NonStringCode

get_language_name(lang_code) ==
    IF lang_code \in DOMAIN language_map THEN language_map[lang_code]
    ELSE Upper(lang_code)

\* the range of a list
Range(xs) == {xs[i] : i \in DOMAIN xs}

RECURSIVE JoinWith(_, _)
\* sep.join(strs) for a list of strings
JoinWith(strs, sep) ==
    IF strs = <<>> THEN ""
    ELSE IF Len(strs) = 1 THEN strs[1]
    ELSE strs[1] \o sep \o JoinWith(Tail(strs), sep)

RECURSIVE Concat(_)
\* the pieces that a loop appends to a string with +=
Concat(strs) == IF strs = <<>> THEN "" ELSE Head(strs) \o Concat(Tail(strs))

RECURSIVE ReplaceChar(_, _, _)
\* cs.replace(c, by)
ReplaceChar(cs, c, by) ==
    IF cs = <<>> THEN <<>>
    ELSE (IF Head(cs) = c THEN by ELSE <<Head(cs)>>) \o ReplaceChar(Tail(cs), c, by)

\* a string as json.dumps prints it
JsonString(cs) ==
    "\"" \o Str(ReplaceChar(ReplaceChar(cs, "\\", <<"\\", "\\">>), "\"", <<"\\", "\"">>)) \o "\""

\* the format codes generate_formats has a branch for
SupportedFormats == {"txt", "srt", "vtt", "json", "csv", "md"}

\* base_text = ' '.join([seg['text'] for seg in segments])
base_text(segments) ==
    JoinWith([i \in DOMAIN segments |-> Str(segments[i].text)], " ")

\* the txt branch of generate_formats
RenderTxt(segments, title, lang_name, generated, text_content) ==
    "YouTube Video: " \o Str(title) \o "\nLanguage: " \o lang_name
    \o "\nGenerated: " \o generated \o "\nPowered by Whisper AI\n\n" \o text_content

\* the srt branch: entries numbered from 1
RenderSrt(segments) ==
    Concat([i \in DOMAIN segments |->
        ToString(i) \o "\n" \o format_srt_time(segments[i].start) \o " --> "
        \o format_srt_time(segments[i].end) \o "\n" \o Str(segments[i].text) \o "\n\n"])

\* the vtt branch
RenderVtt(segments) ==
    "WEBVTT\n\n" \o
    Concat([i \in DOMAIN segments |->
        format_vtt_time(segments[i].start) \o " --> "
        \o format_vtt_time(segments[i].end) \o "\n" \o Str(segments[i].text) \o "\n\n"])

\* the json branch: json.dumps(json_content, indent=2)
RenderJson(segments, title, lang_name, generated, language_info) ==
    "{\n  \"title\": " \o JsonString(title)
    \o ",\n  \"language\": \"" \o lang_name \o "\""
    \o ",\n  \"segments\": "
    \o (IF segments = <<>> THEN "[]"
        ELSE "[\n" \o JoinWith([i \in DOMAIN segments |->
                 "    {\n      \"start\": " \o FloatRepr(segments[i].start)
                 \o ",\n      \"end\": " \o FloatRepr(segments[i].end)
                 \o ",\n      \"text\": " \o JsonString(segments[i].text)
                 \o "\n    }"], ",\n") \o "\n  ]")
    \o ",\n  \"metadata\": {\n    \"generated_at\": \"" \o generated \o "\""
    \o ",\n    \"language_detected\": \"" \o language_info.language \o "\""
    \o ",\n    \"confidence\": " \o language_info.language_probability
    \o ",\n    \"powered_by\": \"Whisper AI\"\n  }\n}"

\* the text field of a csv row, character by character, with the quotes of
\* the text left as they are
CsvFieldCharsUnescaped(text) == <<"\"">> \o text \o <<"\"">>

\* the text field of a csv row, character by character:
\* "{seg['text'].replace('"', '""')}" in quotes
CsvFieldChars(text) == <<"\"">> \o ReplaceChar(text, "\"", <<"\"", "\"">>) \o <<"\"">>

CsvField(text) == Str(CsvFieldChars(text))

RECURSIVE Flatten(_)
\* the pieces of a list of lists, in order
Flatten(lists) == IF lists = <<>> THEN <<>> ELSE Head(lists) \o Flatten(Tail(lists))

\* the csv branch, as the pieces the loop appends: the header line, then for
\* every segment the two times, the commas, the characters of the text
\* field and the end of the line
RenderCsvPieces(segments) ==
    <<"Start Time,End Time,Text\n">> \o
    Flatten([i \in DOMAIN segments |->
        <<Fixed2(segments[i].start), ",", Fixed2(segments[i].end), ",">>
        \o CsvFieldChars(segments[i].text) \o <<"\n">>])

\* the csv branch
RenderCsv(segments) == Str(RenderCsvPieces(segments))

\* the md branch
RenderMd(segments, title, lang_name, generated) ==
    "# " \o Str(title) \o "\n\n**Language:** " \o lang_name
    \o "\n**Generated:** " \o generated
    \o "\n**Powered by:** Whisper AI\n\n## Transcript\n\n" \o
    Concat([i \in DOMAIN segments |->
        "**[" \o format_time(segments[i].start) \o "]** "
        \o Str(segments[i].text) \o "\n\n"])

\* the content generate_formats stores for one language and one format
RenderFormat(format_type, segments, title, lang_name, generated, language_info, text_content) ==
    CASE format_type = "txt"  -> RenderTxt(segments, title, lang_name, generated, text_content)
      [] format_type = "srt"  -> RenderSrt(segments)
      [] format_type = "vtt"  -> RenderVtt(segments)
      [] format_type = "json" -> RenderJson(segments, title, lang_name, generated, language_info)
      [] format_type = "csv"  -> RenderCsv(segments)
      [] format_type = "md"   -> RenderMd(segments, title, lang_name, generated)

\* text_content = base_text: the same text for every language
text_content_of(lang_code, segments) == base_text(segments)

\* the format codes of selected_formats that the if/elif chain has a branch
\* for; any other code falls through and stores nothing
RenderedFormats(selected_formats) == Range(selected_formats) \cap SupportedFormats

\* generate_formats raises (get_language_name, at the first language code that
\* is no string) before it returns anything
generate_formats_raises(selected_languages) ==
    \E i \in DOMAIN selected_languages : get_language_name_raises(selected_languages[i])

\* generate_formats(segments, title, language_info, selected_formats,
\* selected_languages): generated_files[lang_code][format_type] = content;
\* generated is what time.strftime returns
generate_formats(segments, title, language_info, selected_formats, selected_languages, generated) ==
    [lang_code \in Range(selected_languages) |->
        [format_type \in RenderedFormats(selected_formats) |->
            RenderFormat(format_type, segments, title, get_language_name(lang_code),
                         generated, language_info, text_content_of(lang_code, segments))]]

(***************************************************************************)
(* Inputs.                                                                 *)
(***************************************************************************)
\* the request bodies a client posts: a JSON body with a url (and a format
\* code generate_formats has no branch for), a form with an uploaded file, a
\* form whose language code is no string, a body with neither url nor file,
\* and a form whose 'languages' field is no JSON (json.loads raises)
RequestBodies ==
    { [source |-> "url",  languages |-> <<"en">>,          formats |-> <<"srt", "pdf">>, malformed |-> FALSE],
      [source |-> "file", languages |-> <<"en", "es">>,    formats |-> <<"txt", "srt">>, malformed |-> FALSE],
      [source |-> "file", languages |-> <<NonStringCode>>, formats |-> <<"txt">>,        malformed |-> FALSE],
      [source |-> "none", languages |-> <<"en">>,          formats |-> <<"txt">>,        malformed |-> FALSE],
      [source |-> "file", languages |-> <<"en">>,          formats |-> <<"txt">>,        malformed |-> TRUE] }

\* the title the media fetcher reports (info.get('title')), and the title of
\* an uploaded file
VideoTitle == <<"a", ":", "b", " ">>
UploadedTitle == <<"U","p","l","o","a","d","e","d"," ","A","u","d","i","o">>

\* the title process_transcription works with (lines 278, 289)
TitleOf(source) == IF source = "url" THEN VideoTitle ELSE UploadedTitle

\* the segments the transcriber can return: the first n of these, text
\* already stripped
AllSegments ==
    << [start |-> 0,    end |-> 1500, text |-> <<"H", "i">>],
       [start |-> 1500, end |-> 4100, text |-> <<"a", "\"", "b">>],
       [start |-> 4100, end |-> 6000, text |-> <<"o", "k">>],
       [start |-> 6000, end |-> 7250, text |-> <<"\"">>] >>

SegmentsOf(n) == SubSeq(AllSegments, 1, n)

\* info of model.transcribe: the detected language and its probability
LanguageInfo == [language |-> "en", language_probability |-> "0.99"]

\* time.strftime('%Y-%m-%d %H:%M:%S') at clock value t
strftime(t) == "1970-01-01 00:00:" \o Pad2(t \div 1000)

(***************************************************************************)
(* State.                                                                  *)
(***************************************************************************)
VARIABLES
    now,          \* the clock: the last value read of int(time.time() * 1000)
    active_jobs,  \* the global dict: job id -> job record (a dict)
    transcripts,  \* the transcripts folder: job id -> (file name -> content)
    hpc,          \* per request: where its transcribe() handler stands
    wpc,          \* per request: where its worker thread stands
    req,          \* per request: the body posted
    job_id,       \* per request: the job id transcribe() generated
    loc,          \* per request: the locals of its worker thread
    resp,         \* the response of the last GET request served
    rendered      \* a call of a renderer function: its argument and result

vars == <<now, active_jobs, transcripts, hpc, wpc, req, job_id, loc, resp, rendered>>

NoJob == -1

\* the locals of the worker thread before it runs and after it has ended:
\* those of process_transcription (title, audio_file, total = len(segments),
\* error = the exception caught, generated_files, file_paths, todo = the
\* artifacts still to write, cleanup = what became of the temporary audio),
\* those of download_audio (hooks = the callbacks delivered so far, percent
\* of the callback running) and of transcribe_audio (i).  A callee's locals
\* are gone when it returns.
InitLocals ==
    [title |-> <<>>, audio_file |-> "unset", hooks |-> 0, percent |-> 0,
     total |-> 0, i |-> 0, error |-> "", generated_files |-> EmptyDict,
     file_paths |-> EmptyDict, todo |-> <<>>, cleanup |-> "unset"]

\* no GET request has been served yet
NoResponse == [handler |-> "none", id |-> NoJob, code |-> 0, body |-> EmptyDict]

\* no renderer function is being called on its own
NoCall == [fn |-> "none", input |-> <<>>, output |-> <<>>, returned |-> FALSE]

\* the server after start-up: no job, an empty transcripts folder
Server ==
    /\ now = 0
    /\ active_jobs = EmptyDict
    /\ transcripts = EmptyDict
    /\ hpc = [r \in Requests |-> "idle"]
    /\ wpc = [r \in Requests |-> "idle"]
    /\ req = [r \in Requests |-> CHOOSE b \in RequestBodies : b.source = "none"]
    /\ job_id = [r \in Requests |-> NoJob]
    /\ loc = [r \in Requests |-> InitLocals]
    /\ resp = NoResponse

Init ==
    /\ Server
    /\ rendered = NoCall

\* the values a read of the clock can return: time does not run backwards
ClockReads == now..MaxClock

(***************************************************************************)
(* POST /transcribe.                                                       *)
(***************************************************************************)
\* the record transcribe() stores for a new job
InitialJob ==
    [status |-> "initializing", progress |-> 0,
     message |-> "Initializing AI transcription...",
     performance_stats |-> EmptyDict]

\* transcribe() leaves the record for the worker to create: nothing is stored
StoreJobLeftToWorker(jobs, id, rec) == jobs

\* active_jobs[job_id] = {...}: a plain dict store, which replaces the record
\* of a job id that is already there
StoreJob(jobs, id, rec) == SetItem(jobs, id, rec)

\* lines 359-367: the job id is read off the clock and the record is stored
TranscribeInsert(r) ==
    /\ hpc[r] = "idle"
    /\ \A q \in Requests : q < r => hpc[q] # "idle"
    /\ \E body \in RequestBodies : req' = [req EXCEPT ![r] = body]
    /\ \E t \in ClockReads :
         /\ now' = t
         /\ job_id' = [job_id EXCEPT ![r] = t]
         /\ active_jobs' = StoreJob(active_jobs, t, InitialJob)
    /\ hpc' = [hpc EXCEPT ![r] = "parse"]
    /\ UNCHANGED <<resp, rendered, transcripts, wpc, loc>>

\* lines 369-395: the request is parsed; json.loads of a malformed field
\* raises (answered 500 at line 412), a body with neither url nor file is
\* answered 400
TranscribeParse(r) ==
    /\ hpc[r] = "parse"
    /\ hpc' = [hpc EXCEPT ![r] =
                  IF req[r].malformed THEN "r500"
                  ELSE IF req[r].source = "none" THEN "r400"
                  ELSE "start"]
    /\ UNCHANGED <<resp, rendered, now, active_jobs, transcripts, wpc, req, job_id, loc>>

\* lines 398-409: the worker thread is started and the job id is returned to
\* the client
TranscribeStart(r) ==
    /\ hpc[r] = "start"
    /\ hpc' = [hpc EXCEPT ![r] = "r200"]
    /\ wpc' = [wpc EXCEPT ![r] = "W268"]
    /\ UNCHANGED <<resp, rendered, now, active_jobs, transcripts, req, job_id, loc>>

(***************************************************************************)
(* The worker thread: process_transcription.                               *)
(***************************************************************************)
\* str(e) of the exceptions process_transcription catches at line 335
DownloadFailed      == "Download failed: ERROR: Video unavailable"
AudioNotFound       == "Audio file not found"
TranscriptionFailed == "AI transcription failed: Invalid data found when processing input"
RenderFailed        == "'int' object has no attribute 'upper'"
PersistFailed       == "[Errno 28] No space left on device"

ErrorTexts ==
    {DownloadFailed, AudioNotFound, TranscriptionFailed, RenderFailed, PersistFailed}

\* the statuses a job does not leave, by the spec
Terminal == {"completed", "error"}

\* worker r executes active_jobs[job_id][key] = v and goes on at pc next
Store(r, key, v, next) ==
    /\ active_jobs' = SetField(active_jobs, job_id[r], key, v)
    /\ wpc' = [wpc EXCEPT ![r] = next]

\* worker r raises an exception with text msg inside the try of
\* process_transcription: control goes to the handler at line 335
Raise(r, msg) ==
    /\ wpc' = [wpc EXCEPT ![r] = "E336"]
    /\ loc' = [loc EXCEPT ![r].error = msg]

\* line 268
MarkProcessing(r) ==
    /\ wpc[r] = "W268"
    /\ Store(r, "status", "processing", "W269")
    /\ UNCHANGED <<resp, rendered, now, transcripts, hpc, req, job_id, loc>>

\* line 269
ResetProgress(r) ==
    /\ wpc[r] = "W269"
    /\ Store(r, "progress", 0, "W270")
    /\ UNCHANGED <<resp, rendered, now, transcripts, hpc, req, job_id, loc>>

\* lines 270-289: the starting message; then a url goes to download_audio,
\* an uploaded file is used as it is under the title "Uploaded Audio"
StartMessage(r) ==
    /\ wpc[r] = "W270"
    /\ Store(r, "message", "Starting YouTube transcription...",
             IF req[r].source = "url" THEN "D95" ELSE "W291")
    /\ loc' = [loc EXCEPT ![r] =
                  IF req[r].source = "url" THEN @
                  ELSE [@ EXCEPT !.audio_file = "upload", !.title = TitleOf(req[r].source)]]
    /\ UNCHANGED <<resp, rendered, now, transcripts, hpc, req, job_id>>

(***************************************************************************)
(* download_audio and its progress_hook.                                   *)
(***************************************************************************)
\* line 95
ExtractingMessage(r) ==
    /\ wpc[r] = "D95"
    /\ Store(r, "message", "Extracting video info...", "D96")
    /\ UNCHANGED <<resp, rendered, now, transcripts, hpc, req, job_id, loc>>

\* lines 96-100: extract_info returns the title, and the message names it
DownloadingMessage(r) ==
    /\ wpc[r] = "D96"
    /\ Store(r, "message", "Downloading: " \o Str(TitleOf(req[r].source)), "D101")
    /\ loc' = [loc EXCEPT ![r].title = TitleOf(req[r].source)]
    /\ UNCHANGED <<resp, rendered, now, transcripts, hpc, req, job_id>>

\* lines 96, 101, 104-105: extract_info or download raises; download_audio
\* raises "Download failed: ..."
DownloadRaises(r) ==
    /\ wpc[r] \in {"D96", "D101"}
    /\ wpc' = [wpc EXCEPT ![r] = "E336"]
    /\ loc' = [loc EXCEPT ![r].error = DownloadFailed,
                          ![r].hooks = 0]
    /\ UNCHANGED <<resp, rendered, now, active_jobs, transcripts, hpc, req, job_id>>

\* percent * 0.3
DownloadProgress(percent) == (percent * 3) \div 10

\* lines 68-73: a 'downloading' callback with a percent
HookPercent(r) ==
    /\ wpc[r] = "D101"
    /\ loc[r].hooks < MaxHooks
    /\ \E percent \in Percents :
         /\ Store(r, "progress", DownloadProgress(percent), "H74")
         /\ loc' = [loc EXCEPT ![r].hooks = @ + 1, ![r].percent = percent]
    /\ UNCHANGED <<resp, rendered, now, transcripts, hpc, req, job_id>>

\* line 74
HookPercentMessage(r) ==
    /\ wpc[r] = "H74"
    /\ Store(r, "message", "Downloading audio... " \o ToString(loc[r].percent) \o ".0%", "D101")
    /\ loc' = [loc EXCEPT ![r].percent = 0]
    /\ UNCHANGED <<resp, rendered, now, transcripts, hpc, req, job_id>>

\* lines 75-78: a 'downloading' callback without '_percent_str', or with one
\* that float() rejects
HookNoPercent(r) ==
    /\ wpc[r] = "D101"
    /\ loc[r].hooks < MaxHooks
    /\ Store(r, "message", "Downloading audio...", "D101")
    /\ loc' = [loc EXCEPT ![r].hooks = @ + 1]
    /\ UNCHANGED <<resp, rendered, now, transcripts, hpc, req, job_id>>

\* lines 79-80: a 'finished' callback
HookFinished(r) ==
    /\ wpc[r] = "D101"
    /\ loc[r].hooks < MaxHooks
    /\ Store(r, "progress", 30, "H81")
    /\ loc' = [loc EXCEPT ![r].hooks = @ + 1]
    /\ UNCHANGED <<resp, rendered, now, transcripts, hpc, req, job_id>>

\* line 81
HookFinishedMessage(r) ==
    /\ wpc[r] = "H81"
    /\ Store(r, "message", "Download complete, starting transcription...", "D101")
    /\ UNCHANGED <<resp, rendered, now, transcripts, hpc, req, job_id, loc>>

\* lines 101-103, 281-285: download returns; the temp directory holds a file
\* named audio.* or it does not
DownloadReturns(r) ==
    /\ wpc[r] = "D101"
    /\ \E found \in {"audio", "none"} :
         loc' = [loc EXCEPT ![r].audio_file = found, ![r].hooks = 0]
    /\ wpc' = [wpc EXCEPT ![r] = "W291"]
    /\ UNCHANGED <<resp, rendered, now, active_jobs, transcripts, hpc, req, job_id>>

\* lines 291-292
AudioMissing(r) ==
    /\ wpc[r] = "W291"
    /\ loc[r].audio_file = "none"
    /\ Raise(r, AudioNotFound)
    /\ UNCHANGED <<resp, rendered, now, active_jobs, transcripts, hpc, req, job_id>>

(***************************************************************************)
(* transcribe_audio.                                                       *)
(***************************************************************************)
\* lines 291, 295, 110
LoadingProgress(r) ==
    /\ wpc[r] = "W291"
    /\ loc[r].audio_file # "none"
    /\ Store(r, "progress", 35, "T111")
    /\ UNCHANGED <<resp, rendered, now, transcripts, hpc, req, job_id, loc>>

\* line 111
LoadingMessage(r) ==
    /\ wpc[r] = "T111"
    /\ Store(r, "message", "Loading Whisper AI model...", "T113")
    /\ UNCHANGED <<resp, rendered, now, transcripts, hpc, req, job_id, loc>>

\* lines 113-115: the model is there
StartingProgress(r) ==
    /\ wpc[r] = "T113"
    /\ Store(r, "progress", 40, "T116")
    /\ UNCHANGED <<resp, rendered, now, transcripts, hpc, req, job_id, loc>>

\* line 116
StartingMessage(r) ==
    /\ wpc[r] = "T116"
    /\ Store(r, "message", "Starting AI transcription...", "T123")
    /\ UNCHANGED <<resp, rendered, now, transcripts, hpc, req, job_id, loc>>

\* lines 113, 123-134, 164-165: loading the model or transcribing raises;
\* transcribe_audio raises "AI transcription failed: ..."
TranscribeRaises(r) ==
    /\ wpc[r] \in {"T113", "T123"}
    /\ Raise(r, TranscriptionFailed)
    /\ UNCHANGED <<resp, rendered, now, active_jobs, transcripts, hpc, req, job_id>>

\* lines 123-135: the transcriber returns total segments
TranscribeReturns(r) ==
    /\ wpc[r] = "T123"
    /\ \E total \in 0..MaxSegments :
         /\ loc' = [loc EXCEPT ![r].total = total, ![r].i = 0]
         /\ wpc' = [wpc EXCEPT ![r] = IF total = 0 THEN "T152" ELSE "T146"]
    /\ UNCHANGED <<resp, rendered, now, active_jobs, transcripts, hpc, req, job_id>>

\* 40 + (i / max(total_segments, 1)) * 30
SegmentProgress(i, total) == 40 + (i * 30) \div (IF total > 1 THEN total ELSE 1)

\* lines 145-146
SegmentProgressStore(r) ==
    /\ wpc[r] = "T146"
    /\ Store(r, "progress", SegmentProgress(loc[r].i, loc[r].total), "T147")
    /\ UNCHANGED <<resp, rendered, now, transcripts, hpc, req, job_id, loc>>

\* line 147, and the loop goes on or ends
SegmentMessage(r) ==
    /\ wpc[r] = "T147"
    /\ Store(r, "message",
             "Transcribing... " \o ToString(loc[r].i + 1) \o "/" \o ToString(loc[r].total) \o " segments",
             IF loc[r].i + 1 < loc[r].total THEN "T146" ELSE "T152")
    /\ loc' = [loc EXCEPT ![r].i = @ + 1]
    /\ UNCHANGED <<resp, rendered, now, transcripts, hpc, req, job_id>>

\* lines 152-157
StoreStats(r) ==
    /\ wpc[r] = "T152"
    /\ Store(r, "performance_stats",
             [transcription_time |-> "0.00s", language_detected |-> LanguageInfo.language,
              language_probability |-> LanguageInfo.language_probability,
              total_segments |-> loc[r].total], "T159")
    /\ UNCHANGED <<resp, rendered, now, transcripts, hpc, req, job_id, loc>>

\* line 159
TranscribedProgress(r) ==
    /\ wpc[r] = "T159"
    /\ Store(r, "progress", 70, "T160")
    /\ UNCHANGED <<resp, rendered, now, transcripts, hpc, req, job_id, loc>>

\* line 160
TranscribedMessage(r) ==
    /\ wpc[r] = "T160"
    /\ Store(r, "message", "Transcription complete, generating files...", "W298")
    /\ loc' = [loc EXCEPT ![r].i = 0]
    /\ UNCHANGED <<resp, rendered, now, transcripts, hpc, req, job_id>>

(***************************************************************************)
(* Rendering, persistence, completion and the error handler.               *)
(***************************************************************************)
\* line 298
RenderingProgress(r) ==
    /\ wpc[r] = "W298"
    /\ Store(r, "progress", 80, "W299")
    /\ UNCHANGED <<resp, rendered, now, transcripts, hpc, req, job_id, loc>>

\* line 299
RenderingMessage(r) ==
    /\ wpc[r] = "W299"
    /\ Store(r, "message", "Generating output formats...", "W301")
    /\ UNCHANGED <<resp, rendered, now, transcripts, hpc, req, job_id, loc>>

\* line 301: generate_formats raises
RenderRaises(r) ==
    /\ wpc[r] = "W301"
    /\ generate_formats_raises(req[r].languages)
    /\ Raise(r, RenderFailed)
    /\ UNCHANGED <<resp, rendered, now, active_jobs, transcripts, hpc, req, job_id>>

RECURSIVE Dedupe(_)
\* the first occurrences of a list, in order: the order of a dict's keys
Dedupe(xs) ==
    IF xs = <<>> THEN <<>>
    ELSE LET front == Dedupe(SubSeq(xs, 1, Len(xs) - 1))
             last  == xs[Len(xs)]
         IN  IF last \in Range(front) THEN front ELSE Append(front, last)

RECURSIVE Pairs(_, _)
\* the (language, format) pairs in the order lines 308-310 walk them
Pairs(langs, fmts) ==
    IF langs = <<>> THEN <<>>
    ELSE [k \in DOMAIN fmts |-> <<Head(langs), fmts[k]>>] \o Pairs(Tail(langs), fmts)

\* generated_files.items() and lang_files.items(), flattened
PersistOrder(generated_files, selected_languages, selected_formats) ==
    Pairs(Dedupe(selected_languages),
          SelectSeq(Dedupe(selected_formats), LAMBDA f : f \in SupportedFormats))

\* file_paths[lang_code] = {} for every language (line 309)
EmptyPaths(selected_languages) == [l \in Range(selected_languages) |-> EmptyDict]

\* os.makedirs(job_folder, exist_ok=True)
MakeDirs(folders, id) == IF id \in DOMAIN folders THEN folders ELSE SetItem(folders, id, EmptyDict)

\* lines 301-305: generate_formats returns and the job folder is made
RenderAndMakeFolder(r) ==
    /\ wpc[r] = "W301"
    /\ ~generate_formats_raises(req[r].languages)
    /\ LET generated_files ==
               generate_formats(SegmentsOf(loc[r].total), loc[r].title, LanguageInfo,
                                req[r].formats, req[r].languages, strftime(now))
           todo == PersistOrder(generated_files, req[r].languages, req[r].formats)
       IN  /\ loc' = [loc EXCEPT ![r].generated_files = generated_files,
                                 ![r].todo = todo,
                                 ![r].file_paths = EmptyPaths(req[r].languages)]
           /\ wpc' = [wpc EXCEPT ![r] = IF todo = <<>> THEN "W322" ELSE "W315"]
    /\ transcripts' = MakeDirs(transcripts, job_id[r])
    /\ UNCHANGED <<resp, rendered, now, active_jobs, hpc, req, job_id>>

\* lines 311-318: one artifact is written and entered into file_paths
PersistFile(r) ==
    /\ wpc[r] = "W315"
    /\ LET lang_code   == loc[r].todo[1][1]
           format_type == loc[r].todo[1][2]
           filename    == FileName(loc[r].title, lang_code, format_type)
           content     == loc[r].generated_files[lang_code][format_type]
           rest        == Tail(loc[r].todo)
       IN  /\ transcripts' = [transcripts EXCEPT ![job_id[r]] = SetItem(@, filename, content)]
           /\ loc' = [loc EXCEPT ![r].todo = rest,
                                 ![r].file_paths[lang_code] = SetItem(@, format_type, filename)]
           /\ wpc' = [wpc EXCEPT ![r] = IF rest = <<>> THEN "W322" ELSE "W315"]
    /\ UNCHANGED <<resp, rendered, now, active_jobs, hpc, req, job_id>>

\* lines 305, 315: os.makedirs or open raises OSError, and nothing is written
PersistRaises(r) ==
    /\ \/ /\ wpc[r] = "W301"
          /\ ~generate_formats_raises(req[r].languages)
       \/ wpc[r] = "W315"
    /\ Raise(r, PersistFailed)
    /\ UNCHANGED <<resp, rendered, now, active_jobs, transcripts, hpc, req, job_id>>

\* lines 320-326: the temporary audio of a url job is removed; a failure is
\* swallowed
Cleanup(r) ==
    /\ wpc[r] = "W322"
    /\ \E outcome \in (IF req[r].source = "url" THEN {"removed", "failed"} ELSE {"skipped"}) :
         loc' = [loc EXCEPT ![r].cleanup = outcome]
    /\ wpc' = [wpc EXCEPT ![r] = "W329"]
    /\ UNCHANGED <<resp, rendered, now, active_jobs, transcripts, hpc, req, job_id>>

\* line 329
MarkCompleted(r) ==
    /\ wpc[r] = "W329"
    /\ Store(r, "status", "completed", "W330")
    /\ UNCHANGED <<resp, rendered, now, transcripts, hpc, req, job_id, loc>>

\* line 330
CompletedProgress(r) ==
    /\ wpc[r] = "W330"
    /\ Store(r, "progress", 100, "W331")
    /\ UNCHANGED <<resp, rendered, now, transcripts, hpc, req, job_id, loc>>

\* line 331
CompletedMessage(r) ==
    /\ wpc[r] = "W331"
    /\ Store(r, "message", "AI transcription completed!", "W332")
    /\ UNCHANGED <<resp, rendered, now, transcripts, hpc, req, job_id, loc>>

\* line 332
StoreFiles(r) ==
    /\ wpc[r] = "W332"
    /\ Store(r, "files", loc[r].file_paths, "W333")
    /\ UNCHANGED <<resp, rendered, now, transcripts, hpc, req, job_id, loc>>

\* line 333, and the thread ends, at the end of the try block
StoreTitle(r) ==
    /\ wpc[r] = "W333"
    /\ Store(r, "title", Str(loc[r].title), "done")
    /\ loc' = [loc EXCEPT ![r] = InitLocals]
    /\ UNCHANGED <<resp, rendered, now, transcripts, hpc, req, job_id>>

\* line 336
MarkError(r) ==
    /\ wpc[r] = "E336"
    /\ Store(r, "status", "error", "E337")
    /\ UNCHANGED <<resp, rendered, now, transcripts, hpc, req, job_id, loc>>

\* lines 337-338, and the thread ends, in the except branch
ErrorMessage(r) ==
    /\ wpc[r] = "E337"
    /\ Store(r, "message", loc[r].error, "failed")
    /\ loc' = [loc EXCEPT ![r] = InitLocals]
    /\ UNCHANGED <<resp, rendered, now, transcripts, hpc, req, job_id>>

(***************************************************************************)
(* The system.                                                             *)
(***************************************************************************)
Transcribe(r) ==
    \/ TranscribeInsert(r)
    \/ TranscribeParse(r)
    \/ TranscribeStart(r)

Download(r) ==
    \/ ExtractingMessage(r)
    \/ DownloadingMessage(r)
    \/ DownloadRaises(r)
    \/ HookPercent(r)
    \/ HookPercentMessage(r)
    \/ HookNoPercent(r)
    \/ HookFinished(r)
    \/ HookFinishedMessage(r)
    \/ DownloadReturns(r)

TranscribeAudio(r) ==
    \/ LoadingProgress(r)
    \/ LoadingMessage(r)
    \/ StartingProgress(r)
    \/ StartingMessage(r)
    \/ TranscribeRaises(r)
    \/ TranscribeReturns(r)
    \/ SegmentProgressStore(r)
    \/ SegmentMessage(r)
    \/ StoreStats(r)
    \/ TranscribedProgress(r)
    \/ TranscribedMessage(r)

Worker(r) ==
    \/ MarkProcessing(r)
    \/ ResetProgress(r)
    \/ StartMessage(r)
    \/ Download(r)
    \/ AudioMissing(r)
    \/ TranscribeAudio(r)
    \/ RenderingProgress(r)
    \/ RenderingMessage(r)
    \/ RenderRaises(r)
    \/ RenderAndMakeFolder(r)
    \/ PersistFile(r)
    \/ PersistRaises(r)
    \/ Cleanup(r)
    \/ MarkCompleted(r)
    \/ CompletedProgress(r)
    \/ CompletedMessage(r)
    \/ StoreFiles(r)
    \/ StoreTitle(r)
    \/ MarkError(r)
    \/ ErrorMessage(r)

Next ==
    \/ \E r \in Requests : Transcribe(r)
    \/ \E r \in Requests : Worker(r)

Spec == Init /\ [][Next]_vars

(***************************************************************************)
(* The read-only handlers.  They store nothing, so each is an operator on  *)
(* the state it is served in; a request can be served in any state.        *)
(***************************************************************************)
\* the job ids a client can ask for: every id the clock can give, and one
\* that is never given
JobIds == 0..(MaxClock + 1)

\* jsonify(active_jobs.get(job_id, {})): an unknown id is answered with an
\* empty job
get_progress_or_default(jobs, id) ==
    [code |-> 200, body |-> IF id \in DOMAIN jobs THEN jobs[id] ELSE EmptyDict]

\* GET /progress/<job_id>
get_progress(jobs, id) ==
    IF id \notin DOMAIN jobs
    THEN [code |-> 404, body |-> [error |-> "Job not found"]]
    ELSE [code |-> 200, body |-> jobs[id]]

\* GET /download-all/<job_id>: the archive holds every file of the job folder
download_all(jobs, folders, id) ==
    IF id \notin DOMAIN jobs \/ jobs[id].status # "completed"
    THEN [code |-> 404, body |-> [error |-> "Job not completed"]]
    ELSE IF id \notin DOMAIN folders
    THEN [code |-> 404, body |-> [error |-> "Files not found"]]
    ELSE [code |-> 200, body |-> folders[id]]

\* GET /download/<job_id>/<filename>
download_file(folders, id, filename) ==
    IF id \notin DOMAIN folders \/ filename \notin DOMAIN folders[id]
    THEN [code |-> 404, body |-> [error |-> "File not found"]]
    ELSE [code |-> 200, body |-> [content |-> folders[id][filename]]]

\* the file names a client asks for: one that a job writes, one that none does
FileNames == {FileName(VideoTitle, "en", "srt"), "missing.txt"}

\* a GET handler runs from its first line to its response while the workers
\* stand where they are; it assigns to no global and creates no file
Respond(handler, id, answer) ==
    /\ resp' = [handler |-> handler, id |-> id, code |-> answer.code, body |-> answer.body]
    /\ UNCHANGED <<now, active_jobs, transcripts, hpc, wpc, req, job_id, loc, rendered>>

GetProgress(id) == Respond("progress", id, get_progress(active_jobs, id))

DownloadFile(id, filename) ==
    Respond("download", id, download_file(transcripts, id, filename))

DownloadAll(id) == Respond("download-all", id, download_all(active_jobs, transcripts, id))

\* the server with its GET handlers, and one client that posts once
OneClient == {1}

ServeNext ==
    \/ \E r \in OneClient : Transcribe(r)
    \/ \E r \in OneClient : Worker(r)
    \/ \E id \in JobIds : GetProgress(id)
    \/ \E id \in JobIds, filename \in FileNames : DownloadFile(id, filename)
    \/ \E id \in JobIds : DownloadAll(id)

ServeSpec == Init /\ [][ServeNext]_vars

(***************************************************************************)
(* The renderer functions called on their own.                             *)
(***************************************************************************)
\* the times format_srt_time is called with
TimeInputs == (0..MaxMillis) \cup LongTimes

\* the characters of the segment texts the csv branch is called with
CsvAlphabet == {"a", ",", "\""}

\* the texts of up to n characters
Texts(n) == UNION {[1..k -> CsvAlphabet] : k \in 0..n}

\* a segment list the csv branch is called with: the times of the
\* transcriber's segments, with the given texts
SegmentsWith(texts) ==
    [i \in DOMAIN texts |->
        [start |-> AllSegments[i].start, end |-> AllSegments[i].end, text |-> texts[i]]]

RenderInit ==
    /\ Server
    /\ \/ \E t \in TimeInputs :
             rendered = [fn |-> "format_srt_time", input |-> t, output |-> <<>>,
                         returned |-> FALSE]
       \/ \E k \in 0..MaxRows : \E texts \in [1..k -> Texts(MaxTextLen)] :
             rendered = [fn |-> "csv", input |-> SegmentsWith(texts), output |-> <<>>,
                         returned |-> FALSE]

\* a call returns: rendered holds its result
Return(output) ==
    /\ ~rendered.returned
    /\ rendered' = [rendered EXCEPT !.output = output, !.returned = TRUE]
    /\ UNCHANGED <<now, active_jobs, transcripts, hpc, wpc, req, job_id, loc, resp>>

CallFormatSrtTime ==
    /\ rendered.fn = "format_srt_time"
    /\ Return(format_srt_time_chars(rendered.input))

CallRenderCsv ==
    /\ rendered.fn = "csv"
    /\ Return(RenderCsvPieces(rendered.input))

RenderNext == CallFormatSrtTime \/ CallRenderCsv

RenderSpec == RenderInit /\ [][RenderNext]_vars

(***************************************************************************)
(* Claims.                                                                 *)
(***************************************************************************)
\* request r has posted and its handler has stored the job record
Posted(r) == hpc[r] # "idle"

\* the worker thread of request r has been started
Started(r) == wpc[r] # "idle"

\* this step is transcribe() storing the record of job id
Creates(id) == \E r \in Requests : hpc[r] = "idle" /\ hpc'[r] # "idle" /\ job_id'[r] = id

\* C1: the progress that successive GET /progress polls of a job return
\* never decreases between the job's creation and its terminal status,
\* whatever callbacks the media fetcher delivers, for url and file sources
\* and any number of segments.
C1_PolledProgressNonDecreasing ==
    [][\A id \in JobIds :
          LET before == get_progress(active_jobs, id)
              after  == get_progress(active_jobs', id)
          IN  (before.code = 200 /\ before.body.status \notin Terminal /\ ~Creates(id))
              => after.body.progress >= before.body.progress]_vars

\* C2: no poll returns a record whose status is of one stage transition and
\* whose progress or message is of another: 'completed' comes with progress
\* 100, and 'error' never comes with the message of the stage that failed.
C2_PollSnapshotOfOneTransition ==
    \A id \in JobIds :
        LET poll == get_progress(active_jobs, id)
        IN  poll.code = 200 =>
              /\ poll.body.status = "completed" => poll.body.progress = 100
              /\ poll.body.status = "error" => poll.body.message \in ErrorTexts

\* C3: a record whose status is terminal carries exactly one outcome: the
\* artifact mapping and no error description when completed, an error
\* description and no artifact mapping when error.
C3_ExactlyOneOutcome ==
    \A id \in DOMAIN active_jobs :
        LET job == active_jobs[id]
        IN  /\ job.status = "completed" =>
                 ("files" \in DOMAIN job /\ job.message \notin ErrorTexts)
            /\ job.status = "error" =>
                 (job.message \in ErrorTexts /\ "files" \notin DOMAIN job)

\* C4: once the status of a job is completed or error it never changes.
C4_TerminalStatusIsFinal ==
    [][\A id \in DOMAIN active_jobs :
          active_jobs[id].status \in Terminal
              => active_jobs'[id].status = active_jobs[id].status]_vars

\* C5: POST /transcribe stores the record of a new job under an id that is
\* not in the job store yet.
C5_JobIdIsFresh ==
    [][\A r \in Requests :
          (hpc[r] = "idle" /\ hpc'[r] # "idle") => job_id'[r] \notin DOMAIN active_jobs]_vars

\* the order of the statuses, by the spec
StatusOrder == <<"initializing", "downloading", "transcribing", "rendering", "completed">>

\* C6: a status only moves one stage forward in StatusOrder, or from a
\* non-terminal status to error.
C6_StatusMovesOneStageForward ==
    [][\A id \in DOMAIN active_jobs :
          LET old == active_jobs[id].status
              new == active_jobs'[id].status
          IN  new # old =>
                \/ \E k \in 1..(Len(StatusOrder) - 1) :
                       old = StatusOrder[k] /\ new = StatusOrder[k + 1]
                \/ old \notin Terminal /\ new = "error"]_vars

\* C7: transcribe() stores the record, with status initializing and progress
\* 0, in the step that generates the job id, before it starts the worker
\* and before it returns the id; so GET /progress of an id that a worker
\* runs for or that was returned to a client never answers 404.
C7_VisibleBeforeStartAndResponse ==
    /\ [](\A r \in Requests :
            (Posted(r) \/ Started(r)) => get_progress(active_jobs, job_id[r]).code = 200)
    /\ [][\A r \in Requests :
            (hpc[r] = "idle" /\ hpc'[r] # "idle") =>
                LET poll == get_progress(active_jobs', job_id'[r])
                IN  /\ poll.code = 200
                    /\ poll.body.status = "initializing"
                    /\ poll.body.progress = 0
                    /\ ~Started(r)'
                    /\ hpc'[r] # "r200"]_vars

\* the job id was returned to the client, the worker has not run yet, and a
\* poll finds the record as transcribe() stored it
C7_Witness ==
    \E r \in Requests :
        /\ hpc[r] = "r200"
        /\ wpc[r] = "W268"
        /\ get_progress(active_jobs, job_id[r]).code = 200
        /\ get_progress(active_jobs, job_id[r]).body.status = "initializing"

\* C8: once the fetch, the transcription, the rendering or the persistence
\* of a job has failed, the job is never completed and its record never
\* holds an artifact mapping.
C8_FailedJobNeverCompleted ==
    \A r \in Requests :
        wpc[r] \in {"E336", "E337", "failed"} =>
            LET job == active_jobs[job_id[r]]
            IN  job.status # "completed" /\ "files" \notin DOMAIN job

\* the artifacts request r asked for: one per language and format
RequestedPairs(r) == Range(req[r].languages) \X Range(req[r].formats)

\* C9: GET /download-all answers with an archive exactly for a completed
\* job, and the archive then holds the artifact of every (language, format)
\* pair requested for the job.
C9_ArchiveHoldsEveryRequestedArtifact ==
    \A id \in JobIds :
        LET answer == download_all(active_jobs, transcripts, id)
        IN  IF id \in DOMAIN active_jobs /\ active_jobs[id].status = "completed"
            THEN /\ answer.code = 200
                 /\ \A r \in Requests :
                      (Started(r) /\ job_id[r] = id) =>
                          \A pair \in RequestedPairs(r) :
                              FileName(TitleOf(req[r].source), pair[1], pair[2])
                                  \in DOMAIN answer.body
            ELSE answer.code = 404

\* the formats whose content does not name the language
LanguageFreeFormats == {"srt", "vtt", "csv"}

\* C10: the artifact mapping of a completed job holds exactly one artifact
\* for every requested (language, format) pair and nothing else, and two
\* requested languages get the same transcript body in the same format.
C10_OneArtifactPerRequestedPair ==
    \A r \in Requests :
        LET job == active_jobs[job_id[r]]
        IN  (Started(r) /\ job.status = "completed" /\ "files" \in DOMAIN job) =>
              /\ DOMAIN job.files = Range(req[r].languages)
              /\ \A l \in DOMAIN job.files :
                    /\ DOMAIN job.files[l] = Range(req[r].formats)
                    /\ \A f \in DOMAIN job.files[l] :
                          job.files[l][f] = FileName(TitleOf(req[r].source), l, f)
              /\ \A l1, l2 \in DOMAIN job.files :
                    /\ text_content_of(l1, SegmentsOf(job.performance_stats.total_segments))
                         = text_content_of(l2, SegmentsOf(job.performance_stats.total_segments))
                    /\ \A f \in DOMAIN job.files[l1] \cap DOMAIN job.files[l2] \cap LanguageFreeFormats :
                          transcripts[job_id[r]][job.files[l1][f]]
                              = transcripts[job_id[r]][job.files[l2][f]]

\* C11: once the status of a job is error, no step changes any field of its
\* record other than the message: the progress keeps the value it had, no
\* key is added and none is rewritten.
C11_ErrorRecordIsFrozen ==
    [][\A id \in DOMAIN active_jobs :
          active_jobs[id].status = "error" =>
              LET old == active_jobs[id]
                  new == active_jobs'[id]
              IN  /\ DOMAIN new = DOMAIN old
                  /\ \A key \in DOMAIN old \ {"message"} : new[key] = old[key]]_vars

\* the stage of process_transcription that worker r is in when it raises
FailingStage(r) ==
    CASE wpc[r] \in {"D96", "D101", "W291"} -> "fetch"
      [] wpc[r] \in {"T113", "T123"} -> "transcription"
      [] wpc[r] = "W301" /\ generate_formats_raises(req[r].languages) -> "rendering"
      [] OTHER -> "persistence"

\* str(e) of the exceptions the libraries raise, before the code wraps them
ExceptionTexts ==
    {"ERROR: Video unavailable", "Invalid data found when processing input",
     RenderFailed, PersistFailed}

\* the stage an error description names: download_audio and transcribe_audio
\* put a prefix before the exception text (lines 105, 165) and line 292 has a
\* text of its own; any other description is a bare exception text
IdentifiedStage(msg) ==
    IF msg = AudioNotFound \/ \E e \in ExceptionTexts : msg = "Download failed: " \o e
    THEN "fetch"
    ELSE IF \E e \in ExceptionTexts : msg = "AI transcription failed: " \o e
    THEN "transcription"
    ELSE "unidentified"

\* C12: when a stage of a job fails, the error description that is stored
\* names that stage: fetch, transcription, rendering and persistence
\* failures are told apart by the description.
C12_DescriptionIdentifiesStage ==
    [][\A r \in Requests :
          (wpc[r] # "E336" /\ wpc'[r] = "E336") =>
              IdentifiedStage(loc'[r].error) = FailingStage(r)]_vars

\* C13: the removal of the temporary audio, failed or not, raises nothing
\* into the worker and stores nothing: the worker goes on to line 329; and
\* a worker that has come through the persistence ends with its job
\* completed and the artifact mapping in the record, whatever became of the
\* cleanup.
C13_CleanupFailureKeepsJobCompleted ==
    [][\A r \in Requests :
          /\ (wpc[r] = "W322" /\ wpc'[r] # "W322") =>
                 (wpc'[r] = "W329" /\ active_jobs' = active_jobs)
          /\ (wpc[r] = "W333" /\ wpc'[r] = "done") =>
                 LET job == active_jobs'[job_id[r]]
                 IN  /\ loc[r].cleanup \in {"removed", "failed", "skipped"}
                     /\ job.status = "completed"
                     /\ "files" \in DOMAIN job
                     /\ job.files = loc[r].file_paths]_vars

\* this step is a step of the worker thread of request r
WorkerStep(r) == wpc[r] # "idle" /\ (wpc'[r] # wpc[r] \/ loc'[r] # loc[r])

\* C14: a step of the worker of one job leaves the record of every other
\* job as it is, so what a poll of job a returns does not depend on the
\* worker of job b.
C14_WorkerLeavesOtherJobsAlone ==
    [][\A a, b \in Requests :
          (a # b /\ Posted(a) /\ WorkerStep(b)) =>
              get_progress(active_jobs', job_id[a]) = get_progress(active_jobs, job_id[a])]_vars

\* where a worker stands while the source is fetched (download_audio and
\* its progress_hook), while the audio is transcribed (transcribe_audio)
\* and while the formats are rendered and written
FetchPcs      == {"D95", "D96", "D101", "H74", "H81"}
TranscribePcs == {"W291", "T111", "T113", "T116", "T123", "T146", "T147", "T152", "T159", "T160"}
RenderPcs     == {"W298", "W299", "W301", "W315"}

\* the band of progress values of the stage a worker at pc is in
Band(pc) ==
    IF pc \in FetchPcs THEN 0..30
    ELSE IF pc \in TranscribePcs THEN 30..70
    ELSE IF pc \in RenderPcs THEN 70..95
    ELSE 0..100

\* C15: the progress of every record is within 0..100 and is 100 when the
\* status is completed, and every progress value a worker stores lies in the
\* band of its stage: 0..30 while fetching, 30..70 while transcribing,
\* 70..95 while rendering.
C15_ProgressWithinStageBands ==
    /\ [](\A id \in DOMAIN active_jobs :
            /\ active_jobs[id].progress \in 0..100
            /\ active_jobs[id].status = "completed" => active_jobs[id].progress = 100)
    /\ [][\A r \in Requests :
            (WorkerStep(r) /\ job_id[r] \in DOMAIN active_jobs
               /\ active_jobs'[job_id[r]].progress # active_jobs[job_id[r]].progress) =>
                active_jobs'[job_id[r]].progress \in Band(wpc[r])]_vars

\* this step is a GET handler answering: no handler of a POST and no worker
\* moves
ReadStep == hpc' = hpc /\ wpc' = wpc /\ loc' = loc

\* C16: a GET request, whatever id it names, leaves the job store and the
\* transcripts folder as they are, and GET /progress of an id that is not
\* in the job store is answered 404 'Job not found', never with a job.
C16_ReadsAnswerNotFoundAndStoreNothing ==
    [][ReadStep =>
          /\ active_jobs' = active_jobs
          /\ transcripts' = transcripts
          /\ (resp'.handler = "progress" /\ resp'.id \notin DOMAIN active_jobs) =>
                 (resp'.code = 404 /\ resp'.body = [error |-> "Job not found"])]_vars

\* a job is in the store, and the last poll, of an id that is not in it,
\* was answered 404
C16_Witness ==
    /\ active_jobs # EmptyDict
    /\ resp.handler = "progress"
    /\ resp.id \notin DOMAIN active_jobs
    /\ resp.code = 404

RECURSIVE ParseQuoted(_, _)
\* a csv reader past the opening quote of a field: a doubled quote is a
\* quote of the text, a single one ends the field
ParseQuoted(cs, text) ==
    IF cs = <<>> THEN [ok |-> FALSE, text |-> text, rest |-> <<>>]
    ELSE IF Head(cs) # "\"" THEN ParseQuoted(Tail(cs), Append(text, Head(cs)))
    ELSE IF Len(cs) >= 2 /\ cs[2] = "\""
         THEN ParseQuoted(SubSeq(cs, 3, Len(cs)), Append(text, "\""))
         ELSE [ok |-> TRUE, text |-> text, rest |-> Tail(cs)]

RECURSIVE ParseCsvRows(_)
\* a csv reader on the pieces after the header line: every row is a start
\* time, a comma, an end time, a comma, a quoted field and the end of the line
ParseCsvRows(pieces) ==
    IF pieces = <<>> THEN [ok |-> TRUE, rows |-> <<>>]
    ELSE IF Len(pieces) < 6 \/ pieces[2] # "," \/ pieces[4] # "," \/ pieces[5] # "\""
    THEN [ok |-> FALSE, rows |-> <<>>]
    ELSE LET field == ParseQuoted(SubSeq(pieces, 6, Len(pieces)), <<>>)
         IN  IF ~field.ok \/ field.rest = <<>> \/ Head(field.rest) # "\n"
             THEN [ok |-> FALSE, rows |-> <<>>]
             ELSE LET more == ParseCsvRows(Tail(field.rest))
                  IN  [ok |-> more.ok,
                       rows |-> <<[start |-> pieces[1], end |-> pieces[3],
                                   text |-> field.text]>> \o more.rows]

\* C17: the csv artifact is the header row 'Start Time,End Time,Text' and
\* then one row per segment, in segment order, whose text field is in double
\* quotes with every quote of the text doubled: a csv reader gets back the
\* text of every segment, for all texts over an alphabet with the quote and
\* the comma.
C17_CsvQuotesEveryText ==
    (rendered.fn = "csv" /\ rendered.returned) =>
        LET segments == rendered.input
            read == ParseCsvRows(Tail(rendered.output))
        IN  /\ Head(rendered.output) = "Start Time,End Time,Text\n"
            /\ read.ok
            /\ Len(read.rows) = Len(segments)
            /\ \A i \in DOMAIN segments :
                  /\ read.rows[i].text = segments[i].text
                  /\ read.rows[i].start = Fixed2(segments[i].start)
                  /\ read.rows[i].end = Fixed2(segments[i].end)

\* the csv branch has returned for two segments, the text of one with a
\* quote in it and the text of the other with a comma in it
C17_Witness ==
    /\ rendered.fn = "csv"
    /\ rendered.returned
    /\ Len(rendered.input) = 2
    /\ "\"" \in Range(rendered.input[1].text)
    /\ "," \in Range(rendered.input[2].text)

RECURSIVE SplitOn(_, _)
\* cs.split(sep)
SplitOn(cs, sep) ==
    IF cs = <<>> THEN <<<<>>>>
    ELSE LET fields == SplitOn(Tail(cs), sep)
         IN  IF Head(cs) = sep THEN <<<<>>>> \o fields
             ELSE <<<<Head(cs)>> \o Head(fields)>> \o Tail(fields)

RECURSIVE ToNumber(_)
\* int(cs) for a field of digits
ToNumber(cs) ==
    IF cs = <<>> THEN 0
    ELSE 10 * ToNumber(SubSeq(cs, 1, Len(cs) - 1))
         + (CHOOSE d \in 0..9 : DigitChars[d + 1] = cs[Len(cs)])

\* an SRT reader on HH:MM:SS,mmm
ParseSrtTime(cs) ==
    LET fields == SplitOn(cs, ":")
        last   == SplitOn(fields[Len(fields)], ",")
        digits == <<fields[1], fields[2], last[1], last[2]>>
        ok     == /\ Len(fields) = 3
                  /\ Len(last) = 2
                  /\ \A i \in 1..4 : digits[i] # <<>> /\ Range(digits[i]) \subseteq Range(DigitChars)
    IN  IF ~ok THEN [ok |-> FALSE]
        ELSE [ok |-> TRUE, hours |-> ToNumber(digits[1]), minutes |-> ToNumber(digits[2]),
              secs |-> ToNumber(digits[3]), millis |-> ToNumber(digits[4]),
              widths |-> [i \in 1..4 |-> Len(digits[i])]]

\* C18: the SRT timestamp of a time of a whole number of milliseconds reads
\* back as HH:MM:SS,mmm with minutes and seconds in 0..59 and milliseconds
\* in 0..999, and the time read back is within one millisecond of the time
\* formatted.
C18_SrtTimeRoundTrip ==
    (rendered.fn = "format_srt_time" /\ rendered.returned) =>
        LET read == ParseSrtTime(rendered.output)
        IN  /\ read.ok
            /\ read.widths = <<2, 2, 2, 3>>
            /\ read.minutes \in 0..59
            /\ read.secs \in 0..59
            /\ read.millis \in 0..999
            /\ LET back == ((read.hours * 60 + read.minutes) * 60 + read.secs) * 1000
                             + read.millis
               IN  back - rendered.input \in -1..1

\* format_srt_time has returned for a time that the float arithmetic
\* truncates, and for the time read back is one millisecond less
C18_Witness ==
    /\ rendered.fn = "format_srt_time"
    /\ rendered.returned
    /\ rendered.input \in TruncatedTimes
    /\ rendered.input >= 1000
    /\ ParseSrtTime(rendered.output).millis = (rendered.input % 1000) - 1

\* transcribe() has answered request r with 400 or 500
Rejected(r) == hpc[r] \in {"r400", "r500"}

\* C19: a POST /transcribe that is answered 400 or 500 leaves no record in
\* the job store: under the id of a rejected request there is a record only
\* if another request, one that was not rejected, has the same id.
C19_RejectedPostLeavesNoRecord ==
    \A r \in Requests :
        (Rejected(r) /\ job_id[r] \in DOMAIN active_jobs) =>
            \E q \in Requests \ {r} :
                Posted(q) /\ ~Rejected(q) /\ job_id[q] = job_id[r]

\* nothing of request r is left to run: it was rejected, or it was accepted
\* and its worker thread has ended
Finished(r) == Rejected(r) \/ (hpc[r] = "r200" /\ wpc[r] \in {"done", "failed"})

\* C20: every record of the job store reaches status completed or error:
\* when every request that has arrived is finished, so that no handler and
\* no worker has a step left, no record is in initializing or processing.
C20_EveryRecordReachesTerminal ==
    (\A r \in Requests : ~Posted(r) \/ Finished(r)) =>
        \A id \in DOMAIN active_jobs : active_jobs[id].status \in Terminal

=============================================================================
